---- MODULE Spec2Model ----
(***************************************************************************)
(* A model of telescope/mount.py: the Mount serial protocol client, the    *)
(* with-block of the script that drives it, and the mount at the other end *)
(* of the serial line.                                                     *)
(*                                                                         *)
(* Bytes are one-character strings; the raw byte chr(n) of a non-printable *)
(* code n is the token Chr(n).  A string of the program is a sequence of   *)
(* bytes.  Time is counted in poll steps: one unit is the default step of  *)
(* _wait_goto (0.1 s).  Angles are integers on a grid of SubSteps          *)
(* sub-steps per 1/65536 of a turn.                                        *)
(*                                                                         *)
(* The program is Python 2 with pyserial 3.0.1: Serial(port=...) opens the *)
(* port, read returns a str, and a read whose deadline (timeout=100)       *)
(* passes returns the bytes received so far, possibly none.                *)
(***************************************************************************)
EXTENDS Integers, Sequences, FiniteSets, TLC

VARIABLES
    pc,         \* the statement the program is at
    stack,      \* return addresses of the calls in progress, innermost first
    ret,        \* the value the last call returned
    phase,      \* "new", "enter" (__enter__), "body" (with-block), "exit" (__exit__), "end"
    exc,        \* the exception that left the with statement, or "none"
    pending,    \* the exception of the with-block that triggered __exit__, or "none"
    portOpen,   \* self._port.isOpen()
    mountBound, \* the global name `mount` is bound (the with statement's `as mount`)
    op,         \* the caller-level operation in progress
    arg,        \* its arguments
    cmd,        \* locals of _command: command, rsize, buf
    w,          \* locals of _wait_goto: spent, timeout, step
    rx,         \* bytes received on the serial line and not yet read
    late,       \* bytes of a response the mount has not sent yet (it is slow)
    dev,        \* the mount: moving, and the position fields it reports
    devProto,   \* the response framing of the mount's firmware
    trace,      \* transport events of the caller-level operation in progress
    opsLeft,    \* operations the with-block may still start
    faults      \* transport faults (stalls, I/O errors) so far

vars == <<pc, stack, ret, phase, exc, pending, portOpen, mountBound, op, arg,
          cmd, w, rx, late, dev, devProto, trace, opsLeft, faults>>

(***************************************************************************)
(* Bounds of the model.                                                    *)
(***************************************************************************)
MaxOps == 2
MaxFaults == 1
MaxEmpty == 1
MaxTimeout == 2
MaxStep == 2
SubSteps == 2
\* The default budget of _wait_goto is 30.0 s, 300 default steps of 0.1 s;
\* the model runs it at this many default steps.
DefaultTimeout == 3

DefaultStep == 1

None == "None"

(***************************************************************************)
(* Strings.                                                                *)
(***************************************************************************)
HexChars == <<"0", "1", "2", "3", "4", "5", "6", "7",
              "8", "9", "A", "B", "C", "D", "E", "F">>

Chr(n) == IF n = 0 THEN "<00>" ELSE IF n = 1 THEN "<01>" ELSE "<02>"

RECURSIVE HexOf(_)
HexOf(n) == IF n < 16 THEN <<HexChars[n + 1]>>
            ELSE Append(HexOf(n \div 16), HexChars[(n % 16) + 1])

RECURSIVE Zeros(_)
Zeros(k) == IF k <= 0 THEN <<>> ELSE <<"0">> \o Zeros(k - 1)

\* '%04X' % n: at least four characters, zero-padded, the sign counted in.
Fmt04X(n) ==
    IF n >= 0
    THEN Zeros(4 - Len(HexOf(n))) \o HexOf(n)
    ELSE <<"-">> \o Zeros(3 - Len(HexOf(-n))) \o HexOf(-n)

\* int(v * 65536.0) for v = x / (65536 * SubSteps): truncation toward zero.
IntOf(x) == IF x >= 0 THEN x \div SubSteps ELSE -((-x) \div SubSteps)

Turn == 65536 * SubSteps

v2s(x) == Fmt04X(IntOf(x))

HexDigitVal(c) == CHOOSE i \in 0..15 : HexChars[i + 1] = c

IsHex(s) == Len(s) > 0 /\ \A i \in 1..Len(s) : \E j \in 1..16 : HexChars[j] = s[i]

RECURSIVE HexVal(_)
HexVal(s) == IF Len(s) = 0 THEN 0
             ELSE 16 * HexVal(SubSeq(s, 1, Len(s) - 1)) + HexDigitVal(s[Len(s)])

\* s.split(','): the fields between the commas.
RECURSIVE Split(_)
Split(s) ==
    IF \A i \in 1..Len(s) : s[i] # ","
    THEN <<s>>
    ELSE LET k == CHOOSE i \in 1..Len(s) :
                      s[i] = "," /\ \A j \in 1..(i - 1) : s[j] # ","
         IN <<SubSeq(s, 1, k - 1)>> \o Split(SubSeq(s, k + 1, Len(s)))

(***************************************************************************)
(* The mount.  "hash" firmware ends every response with '#'; "table"       *)
(* firmware answers as the protocol table lists: the motion status is one  *)
(* byte and nothing more.  An acknowledgement is the byte '#'.             *)
(***************************************************************************)
Protos == {"hash", "table"}

WellFramed(c) ==
    /\ Len(c) = 10
    /\ c[6] = ","
    /\ IsHex(SubSeq(c, 2, 5))
    /\ IsHex(SubSeq(c, 7, 10))

DevReply(c, d, proto) ==
    CASE c[1] = "K" -> <<c[2], "#">>
      [] c[1] = "V" -> <<Chr(1), Chr(2), "#">>
      [] c[1] = "m" -> <<Chr(1), "#">>
      [] c[1] = "T" -> <<"#">>
      [] c[1] = "E" -> d.ra \o <<",">> \o d.dec \o <<"#">>
      [] c[1] = "R" -> <<"#">>
      [] c[1] = "L" -> <<IF d.moving THEN "1" ELSE "0">>
                       \o (IF proto = "hash" THEN <<"#">> ELSE <<>>)
      [] c[1] = "M" -> <<"#">>
      [] OTHER -> <<>>

\* The two fields of a goto command, when it has two hexadecimal fields.
GotoFields(c) == Split(SubSeq(c, 2, Len(c)))

TwoFields(c) ==
    /\ Len(GotoFields(c)) = 2
    /\ IsHex(GotoFields(c)[1])
    /\ IsHex(GotoFields(c)[2])

\* The states the mount may be in after it has taken command c.  It takes
\* the fields of a goto as they were sent and reports them as its position.
DevAfter(c, d) ==
    CASE c[1] = "R" ->
            { [moving |-> m,
               ra |-> IF TwoFields(c) THEN GotoFields(c)[1] ELSE d.ra,
               dec |-> IF TwoFields(c) THEN GotoFields(c)[2] ELSE d.dec]
              : m \in BOOLEAN }
      [] c[1] = "M" -> { [d EXCEPT !.moving = FALSE] }
      [] OTHER -> { d }

(***************************************************************************)
(* Control: jumps, calls, returns and raised exceptions.  Mount catches    *)
(* nothing, so an exception unwinds to the with statement: out of          *)
(* __enter__ it leaves the program, out of the with-block it runs          *)
(* __exit__, out of __exit__ it replaces the one that was in flight.       *)
(***************************************************************************)
Jump(l) ==
    /\ pc' = l
    /\ UNCHANGED <<stack, ret, phase, exc, pending>>

Call(l, rets) ==
    /\ pc' = l
    /\ stack' = rets \o stack
    /\ UNCHANGED <<ret, phase, exc, pending>>

Return(v) ==
    /\ pc' = Head(stack)
    /\ stack' = Tail(stack)
    /\ ret' = v
    /\ UNCHANGED <<phase, exc, pending>>

Raise(e) ==
    /\ stack' = <<>>
    /\ ret' = None
    /\ IF phase = "body"
       THEN /\ pc' = "exit"
            /\ pending' = e
            /\ UNCHANGED <<phase, exc>>
       ELSE /\ pc' = "done"
            /\ phase' = "end"
            /\ exc' = e
            /\ UNCHANGED pending

Ev(kind, data) == <<kind, data>>

\* The locals of an operation that is not running.
NoArg == [ctype |-> "str", c |-> <<>>, mode |-> 0, ra |-> 0, dec |-> 0, timeout |-> 0, step |-> DefaultStep]

NoCmd == [command |-> <<>>, rsize |-> 0, buf |-> <<>>]

NoWait == [spent |-> 0, timeout |-> 0, step |-> DefaultStep]

Init ==
    /\ pc = "new"
    /\ stack = <<>>
    /\ ret = None
    /\ phase = "new"
    /\ exc = "none"
    /\ pending = "none"
    /\ portOpen = FALSE
    /\ mountBound = FALSE
    /\ op = "none"
    /\ arg = NoArg
    /\ cmd = NoCmd
    /\ w = NoWait
    /\ rx = <<>>
    /\ late = <<>>
    /\ dev \in { [moving |-> m, ra |-> <<"8", "0", "0", "0">>,
                  dec |-> <<"4", "0", "0", "0">>] : m \in BOOLEAN }
    /\ devProto \in Protos
    /\ trace = <<>>
    /\ opsLeft = MaxOps
    /\ faults = 0

(***************************************************************************)
(* _command: write the command, then read the response, to the terminator  *)
(* '#' when rsize is None (0 here), else rsize bytes in one read.          *)
(***************************************************************************)
CallCommand(command, rsize, rets) ==
    /\ cmd' = [command |-> command, rsize |-> rsize, buf |-> <<>>]
    /\ Call("cmd_write", rets)

Empties(buf) == Cardinality({ i \in 1..Len(buf) : buf[i] = "" })

\* str(''.join(chr(struct.unpack('B', b)[0]) for b in buf)): every element
\* must be one byte; the empty string of a timed-out read is not.
Decodable(buf) == \A i \in 1..Len(buf) : buf[i] # ""

\* A failed write or read answered by writing the command again.
IoFail_m(e) == Jump("cmd_write")

\* An exception of self._port.write or self._port.read: _command has no
\* try statement, so it leaves _command and its callers.
IoFail(e) == Raise(e)

\* self._port.write(command), and the mount's answer to it.  The answer
\* arrives whole, or the mount stalls after part of it.
CmdWrite ==
    /\ pc = "cmd_write"
    /\ \/ /\ \E d2 \in DevAfter(cmd.command, dev) :
                LET reply == DevReply(cmd.command, d2, devProto) IN
                /\ dev' = d2
                /\ \/ /\ late = <<>>
                      /\ rx' = rx \o reply
                      /\ UNCHANGED <<late, faults>>
                   \/ /\ late = <<>>
                      /\ faults < MaxFaults
                      /\ \E k \in 0..(Len(reply) - 1) :
                            /\ rx' = rx \o SubSeq(reply, 1, k)
                            /\ late' = SubSeq(reply, k + 1, Len(reply))
                      /\ faults' = faults + 1
                   \/ /\ late # <<>>
                      /\ late' = late \o reply
                      /\ UNCHANGED <<rx, faults>>
          /\ trace' = Append(trace, Ev("w", cmd.command))
          /\ Jump("cmd_read")
       \/ /\ faults < MaxFaults
          /\ faults' = faults + 1
          /\ trace' = Append(trace, Ev("ioerror", cmd.command))
          /\ IoFail("SerialException")
          /\ UNCHANGED <<dev, rx, late>>
    /\ UNCHANGED <<portOpen, mountBound, op, arg, cmd, w, devProto, opsLeft>>

\* The end of _command: decode buf and return it.
CmdFinish(buf) ==
    IF Decodable(buf)
    THEN /\ trace' = Append(trace, Ev("r", buf))
         /\ Return(buf)
    ELSE /\ trace' = Append(trace, Ev("r", buf))
         /\ Raise("struct.error")

\* One self._port.read: of one byte in the terminator loop, of rsize bytes
\* otherwise.  A read whose deadline passes returns the bytes it has.
CmdRead ==
    /\ pc = "cmd_read"
    /\ \/ /\ cmd.rsize = 0
          /\ rx # <<>>
          /\ rx' = Tail(rx)
          /\ cmd' = [cmd EXCEPT !.buf = Append(cmd.buf, Head(rx))]
          /\ IF Head(rx) = "#"
             THEN CmdFinish(Append(cmd.buf, Head(rx)))
             ELSE /\ Jump("cmd_read")
                  /\ UNCHANGED trace
          /\ UNCHANGED faults
       \/ /\ cmd.rsize = 0
          /\ rx = <<>>
          /\ Empties(cmd.buf) < MaxEmpty
          /\ cmd' = [cmd EXCEPT !.buf = Append(cmd.buf, "")]
          /\ trace' = Append(trace, Ev("deadline", cmd.buf))
          /\ Jump("cmd_read")
          /\ UNCHANGED <<rx, faults>>
       \/ /\ cmd.rsize > 0
          /\ Len(rx) >= cmd.rsize
          /\ rx' = SubSeq(rx, cmd.rsize + 1, Len(rx))
          /\ cmd' = [cmd EXCEPT !.buf = SubSeq(rx, 1, cmd.rsize)]
          /\ CmdFinish(SubSeq(rx, 1, cmd.rsize))
          /\ UNCHANGED faults
       \/ /\ cmd.rsize > 0
          /\ Len(rx) < cmd.rsize
          /\ rx' = <<>>
          /\ cmd' = [cmd EXCEPT !.buf = rx]
          /\ trace' = trace \o <<Ev("deadline", rx), Ev("r", rx)>>
          /\ Return(rx)
          /\ UNCHANGED faults
       \/ /\ faults < MaxFaults
          /\ faults' = faults + 1
          /\ trace' = Append(trace, Ev("ioerror", cmd.buf))
          /\ IoFail("SerialException")
          /\ UNCHANGED <<rx, cmd>>
    /\ UNCHANGED <<portOpen, mountBound, op, arg, w, late, dev, devProto, opsLeft>>

\* The rest of a stalled response arrives.
DeviceLate ==
    /\ pc # "done"
    /\ late # <<>>
    /\ rx' = rx \o late
    /\ late' = <<>>
    /\ UNCHANGED <<pc, stack, ret, phase, exc, pending, portOpen, mountBound, op,
                   arg, cmd, w, dev, devProto, trace, opsLeft, faults>>

\* The mount reaches its target and stops.
DeviceArrive ==
    /\ pc # "done"
    /\ dev.moving
    /\ dev' = [dev EXCEPT !.moving = FALSE]
    /\ UNCHANGED <<pc, stack, ret, phase, exc, pending, portOpen, mountBound, op,
                   arg, cmd, w, rx, late, devProto, trace, opsLeft, faults>>

\* A method that returns nothing returns None.
RetNone ==
    /\ pc = "ret_none"
    /\ Return(None)
    /\ UNCHANGED <<portOpen, mountBound, op, arg, cmd, w, rx, late, dev, devProto,
                   trace, opsLeft, faults>>

(***************************************************************************)
(* The operations of Mount.                                                *)
(***************************************************************************)
io == <<rx, late, dev, devProto, faults>>

Ord(c) ==
    CASE c = Chr(0) -> 0
      [] c = Chr(1) -> 1
      [] c = Chr(2) -> 2
      [] c = "#" -> 35
      [] c = "0" -> 48
      [] c = "1" -> 49
      [] OTHER -> 97

\* echo without the isinstance test: only the length is checked.
Echo_m ==
    /\ pc = "echo"
    /\ IF Len(arg.c) # 1
       THEN /\ Raise("ValueError")
            /\ UNCHANGED cmd
       ELSE CallCommand(<<"K">> \o arg.c, 0, <<"echo_ret">>)
    /\ UNCHANGED <<portOpen, mountBound, op, arg, w, rx, late, dev, devProto,
                   faults, trace, opsLeft>>

\* if not isinstance(c, str) or len(c) != 1: raise ValueError
Echo ==
    /\ pc = "echo"
    /\ IF arg.ctype # "str" \/ Len(arg.c) # 1
       THEN /\ Raise("ValueError")
            /\ UNCHANGED cmd
       ELSE CallCommand(<<"K">> \o arg.c, 0, <<"echo_ret">>)
    /\ UNCHANGED <<portOpen, mountBound, op, arg, w, io, trace, opsLeft>>

EchoRet ==
    /\ pc = "echo_ret"
    /\ Return(ret[1])
    /\ UNCHANGED <<portOpen, mountBound, op, arg, cmd, w, io, trace, opsLeft>>

GetVersion ==
    /\ pc = "get_version"
    /\ CallCommand(<<"V">>, 0, <<"gv_ret">>)
    /\ UNCHANGED <<portOpen, mountBound, op, arg, w, io, trace, opsLeft>>

\* '%d.%d' % tuple(map(ord, response[:2])): two values are needed.
GetVersionRet ==
    /\ pc = "gv_ret"
    /\ IF Len(ret) < 2
       THEN Raise("TypeError")
       ELSE Return(<<Ord(ret[1]), Ord(ret[2])>>)
    /\ UNCHANGED <<portOpen, mountBound, op, arg, cmd, w, io, trace, opsLeft>>

GetModel ==
    /\ pc = "get_model"
    /\ CallCommand(<<"m">>, 0, <<"gm_ret">>)
    /\ UNCHANGED <<portOpen, mountBound, op, arg, w, io, trace, opsLeft>>

GetModelRet ==
    /\ pc = "gm_ret"
    /\ Return(Ord(ret[1]))
    /\ UNCHANGED <<portOpen, mountBound, op, arg, cmd, w, io, trace, opsLeft>>

SetTrackingMode ==
    /\ pc = "set_tracking_mode"
    /\ CallCommand(<<"T", Chr(arg.mode)>>, 0, <<"ret_none">>)
    /\ UNCHANGED <<portOpen, mountBound, op, arg, w, io, trace, opsLeft>>

SetTrackingOff ==
    /\ pc = "set_tracking_off"
    /\ arg' = [arg EXCEPT !.mode = 0]
    /\ Jump("set_tracking_mode")
    /\ UNCHANGED <<portOpen, mountBound, op, cmd, w, io, trace, opsLeft>>

\* 'R%s,%s' % (v2s(ra.cycle + 0.5), v2s(dec.cycle + 0.25))
GotoCommand(ra, dec) ==
    <<"R">> \o v2s(ra + Turn \div 2) \o <<",">> \o v2s(dec + Turn \div 4)

Goto ==
    /\ pc = "goto"
    /\ CallCommand(GotoCommand(arg.ra, arg.dec), 1, <<"ret_none">>)
    /\ UNCHANGED <<portOpen, mountBound, op, arg, w, io, trace, opsLeft>>

GotoSync ==
    /\ pc = "goto_sync"
    /\ Call("goto", <<"gs_wait">>)
    /\ UNCHANGED <<portOpen, mountBound, op, arg, cmd, w, io, trace, opsLeft>>

\* goto_sync settling the mount with cancel_goto_sync instead of waiting.
GotoSyncWait_m ==
    /\ pc = "gs_wait"
    /\ Call("cancel_goto_sync", <<"ret_none">>)
    /\ UNCHANGED <<portOpen, mountBound, op, arg, cmd, w, rx, late, dev, devProto,
                   faults, trace, opsLeft>>

GotoSyncWait ==
    /\ pc = "gs_wait"
    /\ w' = [spent |-> 0, timeout |-> arg.timeout, step |-> DefaultStep]
    /\ Call("wait_goto", <<"ret_none">>)
    /\ UNCHANGED <<portOpen, mountBound, op, arg, cmd, io, trace, opsLeft>>

GetCoord ==
    /\ pc = "get_coord"
    /\ CallCommand(<<"E">>, 10, <<"gc_parse">>)
    /\ UNCHANGED <<portOpen, mountBound, op, arg, w, io, trace, opsLeft>>

\* response[:-1]
DropLast(s) == IF Len(s) = 0 THEN s ELSE SubSeq(s, 1, Len(s) - 1)

\* ra, dec = map(s2v, response[:-1].split(',')) and the SkyCoord made of
\* them: two hexadecimal fields, and a declination within a quarter turn.
CoordOk(response) ==
    LET f == Split(DropLast(response)) IN
    /\ Len(f) = 2
    /\ IsHex(f[1])
    /\ IsHex(f[2])
    /\ HexVal(f[2]) - 16384 >= -16384
    /\ HexVal(f[2]) - 16384 <= 16384

CoordOf(response) ==
    LET f == Split(DropLast(response)) IN
    [ra |-> (HexVal(f[1]) - 32768) % 65536, dec |-> HexVal(f[2]) - 16384]

GetCoordParse ==
    /\ pc = "gc_parse"
    /\ IF CoordOk(ret)
       THEN Return(CoordOf(ret))
       ELSE Raise("ValueError")
    /\ UNCHANGED <<portOpen, mountBound, op, arg, cmd, w, io, trace, opsLeft>>

IsGotoInProgress ==
    /\ pc = "is_goto_in_progress"
    /\ CallCommand(<<"L">>, 0, <<"igp_ret">>)
    /\ UNCHANGED <<portOpen, mountBound, op, arg, w, io, trace, opsLeft>>

\* A decoding that takes only '1' for a slew in progress.
StatusActive_m(response) == response[1] = "1"

\* return response[0] != '0'
StatusActive(response) == response[1] # "0"

IsGotoInProgressRet ==
    /\ pc = "igp_ret"
    /\ Return(StatusActive(ret))
    /\ UNCHANGED <<portOpen, mountBound, op, arg, cmd, w, io, trace, opsLeft>>

CancelGoto ==
    /\ pc = "cancel_goto"
    /\ Call("is_goto_in_progress", <<"cg_test">>)
    /\ UNCHANGED <<portOpen, mountBound, op, arg, cmd, w, io, trace, opsLeft>>

\* The branch of cancel_goto that sends 'M'.
SendsCancel(inProgress) == ~inProgress

CancelGotoTest ==
    /\ pc = "cg_test"
    /\ IF SendsCancel(ret)
       THEN CallCommand(<<"M">>, 1, <<"ret_none">>)
       ELSE /\ Return(None)
            /\ UNCHANGED cmd
    /\ UNCHANGED <<portOpen, mountBound, op, arg, w, io, trace, opsLeft>>

CancelGotoSync ==
    /\ pc = "cancel_goto_sync"
    /\ Call("cancel_goto", <<"cgs_wait">>)
    /\ UNCHANGED <<portOpen, mountBound, op, arg, cmd, w, io, trace, opsLeft>>

CancelGotoSyncWait ==
    /\ pc = "cgs_wait"
    /\ w' = [spent |-> 0, timeout |-> DefaultTimeout, step |-> DefaultStep]
    /\ Call("wait_goto", <<"ret_none">>)
    /\ UNCHANGED <<portOpen, mountBound, op, arg, cmd, io, trace, opsLeft>>

\* _wait_goto: spent = 0.0, then the loop.
WaitGoto ==
    /\ pc = "wait_goto"
    /\ w' = [w EXCEPT !.spent = 0]
    /\ Call("is_goto_in_progress", <<"wait_test">>)
    /\ UNCHANGED <<portOpen, mountBound, op, arg, cmd, io, trace, opsLeft>>

\* A loop test that gives up one poll interval before the timeout.
WaitCond_m(inProgress, spent, timeout) == inProgress /\ spent + DefaultStep < timeout

\* while self.is_goto_in_progress() and spent < timeout
WaitCond(inProgress, spent, timeout) == inProgress /\ spent < timeout

\* The loop test and, when it holds, the loop body up to its call of
\* mount.get_coord(): `mount` is the global name, not self.
WaitTest ==
    /\ pc = "wait_test"
    /\ IF WaitCond(ret, w.spent, w.timeout)
       THEN /\ w' = [w EXCEPT !.spent = w.spent + w.step]
            /\ trace' = Append(trace, Ev("sleep", <<>>))
            /\ IF mountBound
               THEN Call("get_coord", <<"wait_logged">>)
               ELSE Raise("NameError")
       ELSE /\ Return(w.spent)
            /\ UNCHANGED <<w, trace>>
    /\ UNCHANGED <<portOpen, mountBound, op, arg, cmd, io, opsLeft>>

\* logging.info(...) done: back to the loop test.
WaitLogged ==
    /\ pc = "wait_logged"
    /\ Call("is_goto_in_progress", <<"wait_test">>)
    /\ UNCHANGED <<portOpen, mountBound, op, arg, cmd, w, io, trace, opsLeft>>

(***************************************************************************)
(* The session: Mount(...), __enter__, the with-block, __exit__.           *)
(***************************************************************************)
\* serial.Serial(port=...) opens the port it is given.
Construct ==
    /\ pc = "new"
    /\ portOpen' = TRUE
    /\ Jump("enter")
    /\ UNCHANGED <<mountBound, op, arg, cmd, w, io, trace, opsLeft>>

\* An acquisition that hands the session over without settling the mount.
Enter_m ==
    /\ pc = "enter"
    /\ portOpen' = TRUE
    /\ phase' = "enter"
    /\ op' = "__enter__"
    /\ trace' = IF portOpen THEN <<>> ELSE <<Ev("open", <<>>)>>
    /\ pc' = "enter_ret"
    /\ stack' = <<>>
    /\ UNCHANGED <<ret, exc, pending, mountBound, arg, cmd, w, rx, late, dev,
                   devProto, faults, opsLeft>>

\* __enter__: if not self._port.isOpen(): self._port.open(), then
\* self.cancel_goto_sync()
Enter ==
    /\ pc = "enter"
    /\ portOpen' = TRUE
    /\ phase' = "enter"
    /\ op' = "__enter__"
    /\ trace' = IF portOpen THEN <<>> ELSE <<Ev("open", <<>>)>>
    /\ pc' = "cancel_goto_sync"
    /\ stack' = <<"enter_ret">>
    /\ UNCHANGED <<ret, exc, pending, mountBound, arg, cmd, w, io, opsLeft>>

\* return self, and the with statement binds it to `mount`.
EnterReturn ==
    /\ pc = "enter_ret"
    /\ mountBound' = TRUE
    /\ phase' = "body"
    /\ pc' = "body"
    /\ UNCHANGED <<stack, ret, exc, pending, portOpen, op, arg, cmd, w, io, trace,
                   opsLeft>>

Deg(d) == (d * Turn) \div 360

\* Targets of a goto: right ascension wrapped into a turn, declination
\* within a quarter turn of the equator.
Targets ==
    { <<0, 0>>, <<Deg(179), 0>>, <<Deg(181), 0>>, <<0, Deg(89)>>, <<0, -Deg(89)>>,
      <<Deg(270), Deg(35)>>, <<Turn - 1, Turn \div 4>>, <<Deg(180), -(Turn \div 4)>> }

\* Arguments of echo: their type and their characters.  A unicode string is
\* not a str.
EchoArgs ==
    { <<"str", <<"a">>>>, <<"str", <<"#">>>>, <<"str", <<>>>>,
      <<"str", <<"a", "b">>>>, <<"unicode", <<"a">>>> }

Modes == 0..2

Start(name, label, a) ==
    /\ pc = "body"
    /\ opsLeft > 0
    /\ opsLeft' = opsLeft - 1
    /\ op' = name
    /\ arg' = a
    /\ trace' = <<>>
    /\ pc' = label
    /\ stack' = <<"body">>
    /\ ret' = None
    /\ cmd' = NoCmd
    /\ UNCHANGED <<phase, exc, pending, portOpen, mountBound, io>>

\* A statement of the with-block: a call of one operation of mount.
CallerOp ==
    \/ \E a \in EchoArgs :
          Start("echo", "echo", [NoArg EXCEPT !.ctype = a[1], !.c = a[2]])
          /\ w' = NoWait
    \/ Start("get_version", "get_version", NoArg) /\ w' = NoWait
    \/ Start("get_model", "get_model", NoArg) /\ w' = NoWait
    \/ \E m \in Modes :
          Start("set_tracking_mode", "set_tracking_mode", [NoArg EXCEPT !.mode = m])
          /\ w' = NoWait
    \/ Start("get_coord", "get_coord", NoArg) /\ w' = NoWait
    \/ Start("is_goto_in_progress", "is_goto_in_progress", NoArg) /\ w' = NoWait
    \/ Start("cancel_goto", "cancel_goto", NoArg) /\ w' = NoWait
    \/ Start("cancel_goto_sync", "cancel_goto_sync", NoArg) /\ w' = NoWait
    \/ \E t \in Targets :
          Start("goto", "goto", [NoArg EXCEPT !.ra = t[1], !.dec = t[2]])
          /\ w' = NoWait
    \/ \E t \in Targets, T \in (0..MaxTimeout) \cup {DefaultTimeout} :
          Start("goto_sync", "goto_sync",
                [NoArg EXCEPT !.ra = t[1], !.dec = t[2], !.timeout = T])
          /\ w' = NoWait
    \/ \E T \in 0..MaxTimeout, s \in 1..MaxStep :
          /\ Start("_wait_goto", "wait_goto", [NoArg EXCEPT !.timeout = T, !.step = s])
          /\ w' = [spent |-> 0, timeout |-> T, step |-> s]

\* The with-block ends.
Leave ==
    /\ pc = "body"
    /\ Jump("exit")
    /\ UNCHANGED <<portOpen, mountBound, op, arg, cmd, w, io, trace, opsLeft>>

\* A release that turns tracking off before it cancels the slew.
Exit_m ==
    /\ pc = "exit"
    /\ phase' = "exit"
    /\ op' = "__exit__"
    /\ trace' = <<>>
    /\ pc' = "set_tracking_off"
    /\ stack' = <<"cancel_goto_sync", "exit_close">>
    /\ ret' = None
    /\ arg' = NoArg
    /\ cmd' = NoCmd
    /\ w' = NoWait
    /\ UNCHANGED <<exc, pending, portOpen, mountBound, rx, late, dev, devProto,
                   faults, opsLeft>>

\* __exit__: self.cancel_goto_sync()
Exit ==
    /\ pc = "exit"
    /\ phase' = "exit"
    /\ op' = "__exit__"
    /\ trace' = <<>>
    /\ pc' = "cancel_goto_sync"
    /\ stack' = <<"exit_track">>
    /\ ret' = None
    /\ arg' = NoArg
    /\ cmd' = NoCmd
    /\ w' = NoWait
    /\ UNCHANGED <<exc, pending, portOpen, mountBound, io, opsLeft>>

\* __exit__: self.set_tracking_off()
ExitTrack ==
    /\ pc = "exit_track"
    /\ Call("set_tracking_off", <<"exit_close">>)
    /\ UNCHANGED <<portOpen, mountBound, op, arg, cmd, w, io, trace, opsLeft>>

\* __exit__: self._port.close(); it returns None, so an exception of the
\* with-block goes on.
ExitClose ==
    /\ pc = "exit_close"
    /\ portOpen' = FALSE
    /\ trace' = Append(trace, Ev("close", <<>>))
    /\ pc' = "done"
    /\ phase' = "end"
    /\ exc' = pending
    /\ UNCHANGED <<stack, ret, pending, mountBound, op, arg, cmd, w, io, opsLeft>>

Next ==
    \/ Construct \/ Enter \/ EnterReturn \/ CallerOp \/ Leave
    \/ Exit \/ ExitTrack \/ ExitClose
    \/ Echo \/ EchoRet \/ GetVersion \/ GetVersionRet \/ GetModel \/ GetModelRet
    \/ SetTrackingMode \/ SetTrackingOff
    \/ Goto \/ GotoSync \/ GotoSyncWait \/ GetCoord \/ GetCoordParse
    \/ IsGotoInProgress \/ IsGotoInProgressRet
    \/ CancelGoto \/ CancelGotoTest \/ CancelGotoSync \/ CancelGotoSyncWait
    \/ WaitGoto \/ WaitTest \/ WaitLogged
    \/ CmdWrite \/ CmdRead \/ RetNone
    \/ DeviceLate \/ DeviceArrive

Spec == Init /\ [][Next]_vars

(***************************************************************************)
(* Properties.                                                             *)
(***************************************************************************)
IsWrite(e, letter) == e[1] = "w" /\ e[2][1] = letter

\* The responses to the motion-status queries of the operation in progress.
StatusReplies ==
    { i \in 2..Len(trace) : IsWrite(trace[i - 1], "L") /\ trace[i][1] = "r" }

\* What is_goto_in_progress makes of response i: response[0] != '0'.
ReportsActive(i) == trace[i][2][1] # "0"

\* Response i is the status of a moving mount, whole and nothing else.
MountActive(i) == trace[i][2] = <<"1", "#">>

\* _wait_goto is running: its loop is the statement at hand or on the stack.
WaitLabels == {"wait_test", "wait_logged"}

WaitRunning ==
    \/ pc \in WaitLabels
    \/ \E i \in 1..Len(stack) : stack[i] \in WaitLabels

Raised == pc \in {"exit", "done"}

\* C1: when a run of the wait loop ends in which every motion-status query
\* reported active (the serial line did not fail and carried nothing but
\* the answers to the queries), the loop has returned normally and the
\* elapsed value E it returned satisfies T <= E < T + s, for its timeout T
\* and poll interval s.
C1_WaitTimesOut ==
    [][ ( /\ WaitRunning
          /\ ~WaitRunning'
          /\ faults' = 0
          /\ rx' = <<>>
          /\ \A i \in StatusReplies' : MountActive(i)' )
        => ( /\ ~Raised'
             /\ w.timeout <= ret'
             /\ ret' < w.timeout + w.step ) ]_vars

\* The first motion-status query of __exit__ reported a slew in progress
\* (and the serial line has not failed).
ReleasedWhileSlewing ==
    /\ op = "__exit__"
    /\ faults = 0
    /\ StatusReplies # {}
    /\ \A i \in StatusReplies :
          (\A j \in StatusReplies : i <= j) => MountActive(i)

\* C2: in a release that began while the mount reported a slew in progress,
\* the cancel command 'M' is written before the tracking-off command and
\* before the port is closed.
C2_ReleaseCancelsSlew ==
    ReleasedWhileSlewing =>
        \A i \in 1..Len(trace) :
            (IsWrite(trace[i], "T") \/ trace[i][1] = "close")
            => \E j \in 1..(i - 1) : IsWrite(trace[j], "M")

\* C3: every execution of __exit__ that has ended has closed the port, and
\* an exception of the with-block that triggered it is the one that leaves
\* the with statement.
C3_BestEffortCleanup ==
    (pc = "done" /\ op = "__exit__") =>
        /\ ~portOpen
        /\ (pending # "none" => exc = pending)

\* C4: a program that has opened the port and has ended has closed it.
C4_ReleasedOnEveryPath ==
    pc = "done" => ~portOpen

\* C5: a read whose deadline passed before the terminator or the requested
\* number of bytes ends the command with ProtocolTimeoutError: nothing more
\* is read and no response is returned.
C5_DeadlineRaises ==
    \A i \in 1..Len(trace) :
        trace[i][1] = "deadline" =>
            /\ i = Len(trace)
            /\ Raised
            /\ "ProtocolTimeoutError" \in {pending, exc}

\* C6: at every write of a command no byte of an earlier response is unread
\* or still to come (on a serial line that has not failed).
C6_HalfDuplex ==
    (pc = "cmd_write" /\ faults = 0) => (rx = <<>> /\ late = <<>>)

\* C7: against a mount that answers as the protocol table lists, with no
\* transport fault, a read is issued only while bytes of the response are
\* unread, and a command is written only when none are.
C7_TableFraming ==
    (devProto = "table" /\ faults = 0) =>
        /\ pc = "cmd_read" => rx # <<>>
        /\ pc = "cmd_write" => rx = <<>>

\* The mount's own status, moving or idle, whole and nothing else.
MountStatus(i) == trace[i][2] \in { <<"0", "#">>, <<"1", "#">> }

\* C8: a call of cancel_goto or cancel_goto_sync that has returned has
\* written the cancel command 'M', whatever status the mount reported (on a
\* serial line that has not failed).
C8_CancelWritesM ==
    ( /\ op \in {"cancel_goto", "cancel_goto_sync"}
      /\ pc = "body"
      /\ faults = 0
      /\ \A i \in StatusReplies : MountStatus(i) )
    => \E i \in 1..Len(trace) : IsWrite(trace[i], "M")

Writes == { i \in 1..Len(trace) : trace[i][1] = "w" }

\* goto_sync has returned and its first motion-status query reported idle.
GotoSyncIdleAtOnce ==
    /\ op = "goto_sync"
    /\ pc = "body"
    /\ StatusReplies # {}
    /\ \A i \in StatusReplies :
          (\A j \in StatusReplies : i <= j) => ~ReportsActive(i)

\* C9: a goto_sync whose first motion-status query reported idle has written
\* one 'R' command and then one 'L' query and no other command, has not
\* slept, and its wait has elapsed time 0.
C9_GotoSyncIdle ==
    GotoSyncIdleAtOnce =>
        /\ Cardinality(Writes) = 2
        /\ \A i \in Writes, j \in Writes :
              i < j => (IsWrite(trace[i], "R") /\ IsWrite(trace[j], "L"))
        /\ \A i \in 1..Len(trace) : trace[i][1] # "sleep"
        /\ w.spent = 0

C9_Witness ==
    /\ GotoSyncIdleAtOnce
    /\ arg.timeout > 0
    /\ faults = 0

\* C10: every command goto writes is 'R' and nine characters XXXX,YYYY, each
\* field four uppercase hexadecimal digits.
C10_GotoFraming ==
    \A i \in 1..Len(trace) : IsWrite(trace[i], "R") => WellFramed(trace[i][2])

\* The field the interface gives for an angle: trunc(a / 360 * 65536) mod
\* 65536, four uppercase hexadecimal digits.
AngleField(x) == Fmt04X(IntOf(x) % 65536)

\* C11: each field of the 'R' command goto writes for a target is the
\* 16-bit value trunc(a / 360 * 65536) mod 65536 of that target's angle, as
\* four hexadecimal digits: 0 degrees is sent as 0000, 180 degrees as 8000.
C11_GotoFieldValues ==
    op \in {"goto", "goto_sync"} =>
        \A i \in 1..Len(trace) :
            IsWrite(trace[i], "R") =>
                trace[i][2] = <<"R">> \o AngleField(arg.ra) \o <<",">>
                                      \o AngleField(arg.dec)

\* get_coord has just run in the wait of a goto_sync, and what it read was
\* the two fields the goto sent and the terminator, as far as it reads.
SentFields == SubSeq(trace[1][2], 2, Len(trace[1][2])) \o <<"#">>

RoundTripCase ==
    /\ op = "goto_sync"
    /\ pc \in {"wait_logged", "exit"}
    /\ Len(trace) >= 3
    /\ IsWrite(trace[1], "R")
    /\ IsWrite(trace[Len(trace) - 1], "E")
    /\ trace[Len(trace)][1] = "r"
    /\ trace[Len(trace)][2] = SubSeq(SentFields, 1, 10)

Within(a, b, d) == a - b < d /\ b - a < d

\* C12: when the mount answers the position query with the two fields the
\* goto sent, get_coord returns a position whose right ascension and
\* declination are each less than one 16-bit step from the target.
C12_RoundTrip ==
    RoundTripCase =>
        /\ pc = "wait_logged"
        /\ Within(ret.ra * SubSteps, arg.ra, SubSteps)
        /\ Within(ret.dec * SubSteps, arg.dec, SubSteps)

\* _wait_goto returns: the step from its loop test to its caller.
WaitReturns == pc = "wait_test" /\ pc' \in {"ret_none", "body"}

\* C13: when the wait loop returns, the last thing on the serial line was
\* the response to a motion-status query 'L' of its own, so it has made at
\* least one; and when the elapsed time it returns is less than its timeout,
\* that response reported idle ('0').
C13_FreshStatus ==
    [][ WaitReturns =>
          /\ Len(trace) \in StatusReplies
          /\ (ret' < w.timeout => trace[Len(trace)][2][1] = "0") ]_vars

\* A wait that saw the mount moving, slept, and returned before its timeout.
C13_Witness ==
    /\ op = "_wait_goto"
    /\ pc = "body"
    /\ ret > 0
    /\ ret < w.timeout

\* The responses _command has returned to the operation in progress.
Responses == { i \in 1..Len(trace) : trace[i][1] = "r" }

\* C14: a goto that has returned has written one command, the 'R' command,
\* has read one response, of exactly one byte (the acknowledgement), and
\* has neither queried the motion status or the position nor slept.
C14_GotoDoesNotWait ==
    (op = "goto" /\ pc = "body") =>
        /\ Cardinality(Writes) = 1
        /\ \A i \in Writes : IsWrite(trace[i], "R")
        /\ Cardinality(Responses) = 1
        /\ \A i \in Responses : Len(trace[i][2]) = 1
        /\ \A i \in 1..Len(trace) : trace[i][1] # "sleep"

\* The argument of echo is a str of one character.
EchoValid == arg.ctype = "str" /\ Len(arg.c) = 1

\* C15: an echo whose argument is not a str of exactly one character raises
\* ValueError and has written and read nothing; an echo of one character c
\* writes the command 'K' c, once, and nothing else.
C15_EchoArgument ==
    op = "echo" =>
        IF EchoValid
        THEN /\ \A i \in Writes : trace[i][2] = <<"K">> \o arg.c
             /\ Cardinality(Writes) <= 1
             /\ pc \in {"cmd_read", "echo_ret", "body"} => Cardinality(Writes) = 1
        ELSE /\ trace = <<>>
             /\ pc \in {"echo", "exit"}
             /\ pc = "exit" => pending = "ValueError"

\* echo(u'a') has raised.
C15_Witness ==
    /\ op = "echo"
    /\ pc = "exit"
    /\ arg.ctype = "unicode"
    /\ pending = "ValueError"

\* C16: within one exchange the command is written once: between two writes
\* a response has been returned.  And when a write or a read has failed,
\* nothing is written or read after it, no value is returned, and the
\* operation in progress has ended with that failure.
C16_NoRetry ==
    /\ \A i \in Writes, j \in Writes :
          i < j => \E k \in (i + 1)..(j - 1) : trace[k][1] = "r"
    /\ \A i \in 1..Len(trace) :
          trace[i][1] = "ioerror" =>
              /\ i = Len(trace)
              /\ Raised
              /\ ret = None
              /\ (IF pc = "exit" THEN pending ELSE exc) = "SerialException"

\* A read of get_coord has failed after its command was written.
C16_Witness ==
    /\ op = "get_coord"
    /\ pc = "exit"
    /\ pending = "SerialException"
    /\ Len(trace) = 2
    /\ IsWrite(trace[1], "E")
    /\ trace[2][1] = "ioerror"

\* C17: an is_goto_in_progress that has returned has written one command,
\* 'L', and has returned False when the first byte of the response it read
\* is '0' and True for every other first byte.
C17_StatusDecoding ==
    (op = "is_goto_in_progress" /\ pc = "body") =>
        /\ Writes = {1}
        /\ trace[1][2] = <<"L">>
        /\ trace[Len(trace)][1] = "r"
        /\ ret \in BOOLEAN
        /\ ret = FALSE <=> trace[Len(trace)][2][1] = "0"

\* The query read a byte that is neither '0' nor '1' and returned True.
C17_Witness ==
    /\ op = "is_goto_in_progress"
    /\ pc = "body"
    /\ trace[Len(trace)][2][1] = "#"
    /\ ret = TRUE

TrackWrites == { i \in Writes : IsWrite(trace[i], "T") }

\* Event i belongs to the cancel-motion phase: a status query, the cancel
\* command, a position query or a sleep of the wait loop.
CancelPhase(i) ==
    \/ trace[i][1] = "sleep"
    \/ IsWrite(trace[i], "L") \/ IsWrite(trace[i], "M") \/ IsWrite(trace[i], "E")

\* C18: in __exit__ the first command written is the status query 'L';
\* every write and sleep of the cancel-motion phase comes before the one
\* tracking command, which is 'T' and the byte 0; and the close of the port
\* comes after the response to that command and is the last event: nothing
\* is written or read after it.
C18_ReleaseOrder ==
    op = "__exit__" =>
        /\ \A i \in Writes : CancelPhase(i) \/ i \in TrackWrites
        /\ \A i \in Writes : (\A j \in Writes : i <= j) => IsWrite(trace[i], "L")
        /\ Cardinality(TrackWrites) <= 1
        /\ \A i \in TrackWrites :
              /\ trace[i][2] = <<"T", Chr(0)>>
              /\ \A j \in 1..Len(trace) : CancelPhase(j) => j < i
        /\ \A i \in 1..Len(trace) :
              trace[i][1] = "close" =>
                  /\ i = Len(trace)
                  /\ pc = "done"
                  /\ ~portOpen
                  /\ \E t \in TrackWrites : \E k \in (t + 1)..(i - 1) : trace[k][1] = "r"

\* A release has ended in which the wait loop slept.
C18_Witness ==
    /\ op = "__exit__"
    /\ pc = "done"
    /\ Len(trace) > 0
    /\ trace[Len(trace)][1] = "close"
    /\ \E i \in 1..Len(trace) : trace[i][1] = "sleep"

\* What the operation in progress has done, responses left out: its writes
\* and its sleeps, in order.
IsStep(e) == e[1] \in {"w", "sleep"}

Steps == SelectSeq(trace, IsStep)

Sleeps == { i \in 1..Len(trace) : trace[i][1] = "sleep" }

\* The writes an operation makes before it calls _wait_goto: none when the
\* caller calls it, the 'R' of goto_sync, the 'L' and the 'M', if sent, of
\* cancel_goto_sync.
BeforeWait ==
    CASE op = "_wait_goto" -> 0
      [] op = "goto_sync" -> 1
      [] OTHER -> IF Len(Steps) >= 2 /\ Steps[2] = Ev("w", <<"M">>) THEN 2 ELSE 1

WaitSteps == SubSeq(Steps, BeforeWait + 1, Len(Steps))

\* A run of _wait_goto has ended, on a serial line that has not failed and
\* whose status responses were the mount's own.
WaitEnded ==
    /\ op \in {"_wait_goto", "goto_sync", "cancel_goto_sync", "__enter__"}
    /\ Len(WaitSteps) > 0
    /\ ~WaitRunning
    /\ faults = 0
    /\ \A i \in StatusReplies : MountStatus(i)

\* An exception is in flight.
Failed == (pc = "exit" /\ pending # "none") \/ (pc = "done" /\ exc # "none")

\* C19: the writes and sleeps of a run of _wait_goto that has ended are
\* L (sleep E L)*, each sleep directly after a status response that reported
\* active; with k sleeps it has written k + 1 'L' and k 'E' and has returned
\* k times the poll interval, and k is at most ceil(timeout / poll interval).
C19_WaitTrace ==
    WaitEnded =>
        /\ \A i \in 1..Len(WaitSteps) :
              CASE i % 3 = 1 -> WaitSteps[i] = Ev("w", <<"L">>)
                [] i % 3 = 2 -> WaitSteps[i][1] = "sleep"
                [] OTHER -> WaitSteps[i] = Ev("w", <<"E">>)
        /\ \A i \in Sleeps : (i - 1) \in StatusReplies /\ ReportsActive(i - 1)
        /\ Len(WaitSteps) = 3 * Cardinality(Sleeps) + 1
        /\ ~Failed
        /\ w.spent = Cardinality(Sleeps) * w.step
        /\ Cardinality(Sleeps) * w.step < w.timeout + w.step

\* C20: __enter__ does not open a port that is open.  When it has returned,
\* and so before the caller's first operation, it has made a motion-status
\* query, and the latest one reported idle or the wait, whose timeout is the
\* default, has used up that timeout.
C20_AcquisitionSettles ==
    op = "__enter__" =>
        /\ \A i \in 1..Len(trace) : trace[i][1] # "open"
        /\ pc \in {"enter_ret", "body"} =>
              /\ StatusReplies # {}
              /\ w.timeout = DefaultTimeout
              /\ \A i \in StatusReplies :
                    (\A j \in StatusReplies : j <= i) =>
                        (~ReportsActive(i) \/ w.spent >= w.timeout)

\* The session has been handed to the caller, who has not used it yet.
C20_Witness ==
    /\ op = "__enter__"
    /\ pc = "body"
    /\ mountBound
    /\ \E i \in 1..Len(trace) : IsWrite(trace[i], "L")

====
